---- MODULE Spec2Model ----
(***************************************************************************)
(* A model of helpers/icue-python/icue_helper.py: one invocation of the    *)
(* command-line adapter against the vendor lighting SDK.                   *)
(*                                                                         *)
(* Strings that the program parses or formats (device identifiers, the     *)
(* r/g/b arguments, device ids) are sequences of one-character strings, so *)
(* that int() and str() are computed, not assumed.  Command names, SDK     *)
(* status codes and fixed message texts are atomic strings.                *)
(*                                                                         *)
(* The SDK is the environment: every SDK call returns a status chosen      *)
(* nondeterministically, the device list changes by hot-plug, and the      *)
(* session-state callback runs on the SDK's own thread.                    *)
(***************************************************************************)
EXTENDS Integers, Sequences, FiniteSets, TLC

VARIABLES
    argv,       \* sys.argv[1:]
    stdin,      \* the text available on standard input
    api,        \* the entry points this build of cuesdk exposes (getattr succeeds)
    devs,       \* the SDK's current device list, in enumeration order
    noInfo,     \* the devices for which sdk.get_device_info fails
    plugs,      \* number of hot-plug events so far
    pc,         \* position of the main flow
    session,    \* sdk.connect() has been accepted: the callback thread may run
    ready,      \* threading.Event `ready` of connect_sdk
    elapsed,    \* the timeout of ready.wait(timeout_sec) has elapsed
    targets,    \* set_color_cmd: the list `targets`
    ti,         \* set_color_cmd: 1-based position of the for loop in `targets`
    colors,     \* the list `colors` of set_color_cmd / set_leds_cmd
    calls,      \* history: the SDK calls issued so far, in order
    out,        \* the lines printed on standard output (JSON objects)
    exitCode,   \* the process exit code; -1 while the process runs
    prev        \* history: the invocation before this one, if there was one

vars == <<argv, stdin, api, devs, noInfo, plugs, pc, session, ready, elapsed,
          targets, ti, colors, calls, out, exitCode, prev>>

---------------------------------------------------------------------------
(* Bounds of the model *)

\* Hot-plug events (changes of the SDK's device list) during one invocation.
MaxPlug == 1

---------------------------------------------------------------------------
(* Strings, int() and str() *)

Digits == <<"0", "1", "2", "3", "4", "5", "6", "7", "8", "9">>

IsDigit(c) == \E i \in 1..10 : Digits[i] = c

DigitVal(c) == (CHOOSE i \in 1..10 : Digits[i] = c) - 1

\* The digits of s after an optional sign.
Unsigned(s) == IF Len(s) > 0 /\ s[1] \in {"-", "+"} THEN Tail(s) ELSE s

\* is_int_str: int(s) does not raise.  (int() also accepts surrounding
\* white space and single underscores between digits; no string of the
\* model has either.)
is_int_str(s) ==
    /\ Len(Unsigned(s)) > 0
    /\ \A i \in 1..Len(Unsigned(s)) : IsDigit(Unsigned(s)[i])

RECURSIVE NatOf(_)
NatOf(ds) ==
    IF Len(ds) = 0 THEN 0
    ELSE 10 * NatOf(SubSeq(ds, 1, Len(ds) - 1)) + DigitVal(ds[Len(ds)])

\* int(s) for a string that is_int_str accepts.
IntOf(s) == IF s[1] = "-" THEN 0 - NatOf(Unsigned(s)) ELSE NatOf(Unsigned(s))

RECURSIVE NatStr(_)
NatStr(n) ==
    IF n < 10 THEN <<Digits[n + 1]>>
    ELSE NatStr(n \div 10) \o <<Digits[(n % 10) + 1]>>

\* str(n), as the f-strings of to_device_id format an int.
IntStr(n) == IF n < 0 THEN <<"-">> \o NatStr(0 - n) ELSE NatStr(n)

\* An identifier as the commands hold it (Union[int, str]):
\*   int(device_identifier) if is_int_str(device_identifier) else device_identifier
IntIdent(n) == [isInt |-> TRUE, n |-> n, s |-> <<>>]

StrIdent(s) == [isInt |-> FALSE, n |-> 0, s |-> s]

\* The index taken as 1-based where the enumeration counts from 0.
ParseIdentOneBased(s) == IF is_int_str(s) THEN IntIdent(IntOf(s) + 1) ELSE StrIdent(s)

ParseIdent(s) == IF is_int_str(s) THEN IntIdent(IntOf(s)) ELSE StrIdent(s)

\* f'{ident}'
FormatIdent(ident) == IF ident.isInt THEN IntStr(ident.n) ELSE ident.s

---------------------------------------------------------------------------
(* The SDK's world *)

DevA == <<"a">>
DevB == <<"b">>

\* The devices that may be plugged in.
Devices == {DevA, DevB}

NoDev == <<>>

\* The LED ids of each device's topology.
LedIdsOf(d) == IF d = DevA THEN <<1, 2>> ELSE <<3>>

\* One CorsairLedPosition.
LedPosition(lid) ==
    [led_id |-> lid, top |-> 0, left |-> 10 * lid, height |-> 5, width |-> 5]

\* The led_positions of the object a position query returns for device d.
LedPositionsOf(d) == [i \in 1..Len(LedIdsOf(d)) |-> LedPosition(LedIdsOf(d)[i])]

\* Device lists: the arrangements of any of the devices.
DevLists ==
    UNION {{s \in [1..n -> Devices] : \A i, j \in 1..n : i # j => s[i] # s[j]}
              : n \in 0..Cardinality(Devices)}

CE_Success == "CE_Success"

\* The vendor error vocabulary, as far as the adapter distinguishes it.
Statuses == {"CE_Success", "CE_NotConnected"}

Failures == Statuses \ {CE_Success}

\* The device an index-addressed SDK entry point acts on.
DevAtIndex(devlist, idx) ==
    IF idx >= 0 /\ idx < Len(devlist) THEN devlist[idx + 1] ELSE NoDev

EntryPoints ==
    {"get_led_positions_by_device_index", "get_led_positions_by_device_id",
     "get_led_positions",
     "set_led_colors_buffer_by_device_index", "set_led_colors_buffer_by_device_id",
     "set_led_colors_buffer", "set_led_colors_flush_buffer"}

---------------------------------------------------------------------------
(* Output objects *)

NoArg == <<>>

ErrObj(text, arg) == [error |-> <<text, arg>>]

ErrCodeObj(text, code) == [error |-> <<text, NoArg>>, code |-> code]

IsSuccessObj(o) == "ok" \in DOMAIN o /\ o.ok = TRUE

IsErrorObj(o) == "error" \in DOMAIN o

---------------------------------------------------------------------------
(* The SDK calls the adapter issues, as recorded in `calls` *)

NoIdent == StrIdent(<<>>)

\* One SDK call: the entry point, the identifier passed (an index or a device
\* id), the device the SDK acts on, the list passed (colours) or returned
\* (LED positions), and the status returned ("" where the adapter does not
\* look at it; "None" where Success comes with no positions object).
Call(op, arg, dev, data, err) ==
    [op |-> op, arg |-> arg, dev |-> dev, data |-> data, err |-> err]

\* The record of a position query that returned pos.
PositionCall(op, arg, dev, pos) ==
    Call(op, arg, dev, pos.leds,
         IF pos.isNone /\ pos.err = CE_Success THEN "None" ELSE pos.err)

PositionOps ==
    {"get_led_positions_by_device_index", "get_led_positions_by_device_id",
     "get_led_positions"}

WriteOps ==
    {"set_led_colors_buffer_by_device_index", "set_led_colors_buffer_by_device_id",
     "set_led_colors_buffer"}

FlushOp == "set_led_colors_flush_buffer"

\* The first entry point of `names` that getattr finds callable, "" if none.
FirstCallable(a, names) ==
    IF \E i \in 1..Len(names) : a[names[i]]
    THEN names[CHOOSE i \in 1..Len(names) :
                   a[names[i]] /\ \A j \in 1..(i - 1) : ~a[names[j]]]
    ELSE ""

\* The entry points getattr was asked for while looking for FirstCallable.
ProbedUpTo(a, names) ==
    {names[i] : i \in {k \in 1..Len(names) : \A j \in 1..(k - 1) : ~a[names[j]]}}

---------------------------------------------------------------------------
(* get_devices_with_indexes *)

\* isinstance(dev_id, str): every device id the SDK hands out is a string.
IsStr(dev_id) == dev_id \in Devices

\* The entry of `result` for the device at 0-based idx.  (type, model, serial
\* and channel_count are copied from the info like led_count and are left out.)
Descriptor(devlist, idx) ==
    [index |-> idx, device_id |-> devlist[idx + 1],
     led_count |-> Len(LedIdsOf(devlist[idx + 1]))]

RECURSIVE DescriptorsFrom(_, _, _)
DescriptorsFrom(devlist, infoOk, idx) ==
    IF idx >= Len(devlist) THEN <<>>
    ELSE (IF idx \in infoOk THEN <<Descriptor(devlist, idx)>> ELSE <<>>)
             \o DescriptorsFrom(devlist, infoOk, idx + 1)

\* sdk.get_devices returned (devlist, err); sdk.get_device_info succeeded for
\* the indices in infoOk.  A record with exit = TRUE is a call of json_out.
get_devices_with_indexes(devlist, err, infoOk) ==
    LET getCall == Call("get_devices", NoIdent, NoDev, <<>>, err)
        infoCalls == [i \in 1..Len(devlist) |->
                         Call("get_device_info", StrIdent(devlist[i]), devlist[i], <<>>,
                              IF (i - 1) \in infoOk THEN CE_Success
                              ELSE "CE_DeviceNotFound")]
        mapped == {idx \in 0..(Len(devlist) - 1) :
                       idx \in infoOk /\ IsStr(devlist[idx + 1])}
    IN  IF err # CE_Success
        THEN [exit |-> TRUE, code |-> 1,
              obj |-> ErrCodeObj("Could not enumerate devices", err),
              calls |-> <<getCall>>]
        ELSE [exit |-> FALSE,
              result |-> DescriptorsFrom(devlist, infoOk, 0),
              index_to_id |-> [idx \in mapped |-> devlist[idx + 1]],
              id_to_index |-> [d \in {devlist[idx + 1] : idx \in mapped} |->
                                  CHOOSE idx \in mapped : devlist[idx + 1] = d],
              calls |-> <<getCall>> \o infoCalls]

---------------------------------------------------------------------------
(* to_device_id *)

\* The index looked up the way a Python list is indexed: a negative index
\* counts from the end of the enumeration instead of being out of range.
to_device_id_wrap(ident, en) ==
    LET n == IF en.exit THEN 0 ELSE Cardinality(DOMAIN en.index_to_id)
        idx == IF ident.n < 0 THEN ident.n + n ELSE ident.n
    IN  IF en.exit THEN en
        ELSE IF ident.isInt
        THEN IF idx \in DOMAIN en.index_to_id
             THEN [exit |-> FALSE, id |-> en.index_to_id[idx], calls |-> en.calls]
             ELSE [exit |-> TRUE, code |-> 1, calls |-> en.calls,
                   obj |-> ErrObj("Index out of range: ", FormatIdent(ident))]
        ELSE IF ident.s \in DOMAIN en.id_to_index
        THEN [exit |-> FALSE, id |-> ident.s, calls |-> en.calls]
        ELSE [exit |-> TRUE, code |-> 1, calls |-> en.calls,
              obj |-> ErrObj("Unknown device identifier: ", FormatIdent(ident))]

\* `en` is the result of the call of get_devices_with_indexes at line 83.
\* ident is an int at every call site when it is an integer literal, so the
\* branch of lines 89-93 is taken by no command; it is kept as written.
to_device_id(ident, en) ==
    IF en.exit THEN en
    ELSE IF ident.isInt
    THEN IF ident.n \in DOMAIN en.index_to_id
         THEN [exit |-> FALSE, id |-> en.index_to_id[ident.n], calls |-> en.calls]
         ELSE [exit |-> TRUE, code |-> 1, calls |-> en.calls,
               obj |-> ErrObj("Index out of range: ", FormatIdent(ident))]
    ELSE IF is_int_str(ident.s)
    THEN IF IntOf(ident.s) \in DOMAIN en.index_to_id
         THEN [exit |-> FALSE, id |-> en.index_to_id[IntOf(ident.s)], calls |-> en.calls]
         ELSE [exit |-> TRUE, code |-> 1, calls |-> en.calls,
               obj |-> ErrObj("Index out of range: ", FormatIdent(ident))]
    ELSE IF ident.s \in DOMAIN en.id_to_index
    THEN [exit |-> FALSE, id |-> ident.s, calls |-> en.calls]
    ELSE [exit |-> TRUE, code |-> 1, calls |-> en.calls,
          obj |-> ErrObj("Unknown device identifier: ", FormatIdent(ident))]

---------------------------------------------------------------------------
(* The SDK's answers *)

\* What the SDK answers to one call of a position entry point: with Success
\* the positions object, whose led_positions may be missing, or None; with
\* another status None.  (An entry point that returns the bare object instead
\* of a tuple is read as (object, Success).)
PosAnswers ==
    {[isNone |-> FALSE, hasLeds |-> h, err |-> CE_Success] : h \in BOOLEAN}
        \cup {[isNone |-> TRUE, hasLeds |-> FALSE, err |-> e] : e \in Statuses}

\* What a buffered-write entry point does when called with (target, colors):
\* it returns a status, or the call does not fit its signature.
WriteAnswers == Statuses \cup {"TypeError"}

\* The SDK's answers to the calls get_led_positions may issue.
PositionStepAnswers == [enum : Statuses, pos : PosAnswers]

\* The SDK's answers to the calls set_colors_buffer may issue.
WriteStepAnswers ==
    [enum : Statuses, byIndex : WriteAnswers, byId : WriteAnswers, global : Statuses]

\* The (positions, err) a position entry point returns for device dev.
SdkPositions(dev, pa) ==
    IF dev = NoDev
    THEN [isNone |-> TRUE, leds |-> <<>>, err |-> "CE_InvalidArguments"]
    ELSE [isNone |-> pa.isNone, err |-> pa.err,
          leds |-> IF pa.hasLeds THEN LedPositionsOf(dev) ELSE <<>>]

\* The status an index-addressed write returns.
SdkWriteByIndex(dev, st) ==
    IF dev = NoDev /\ st = CE_Success THEN "CE_InvalidArguments" ELSE st

---------------------------------------------------------------------------
(* get_led_positions *)

\* a: the entry points of the build; ans: the SDK's answers; infoOk: the
\* indices whose get_device_info succeeds.
get_led_positions(a, ident, devlist, infoOk, ans) ==
    LET byIndex == "get_led_positions_by_device_index"
        others == <<"get_led_positions_by_device_id", "get_led_positions">>
        r == to_device_id(ident, get_devices_with_indexes(devlist, ans.enum, infoOk))
        name == FirstCallable(a, others)
        direct == SdkPositions(DevAtIndex(devlist, ident.n), ans.pos)
        byId == SdkPositions(r.id, ans.pos)
    IN  IF ident.isInt /\ a[byIndex]
        THEN [exit |-> FALSE, positions |-> direct, err |-> direct.err,
              probed |-> {byIndex},
              calls |-> <<PositionCall(byIndex, ident,
                                       DevAtIndex(devlist, ident.n), direct)>>]
        ELSE IF r.exit
        THEN [exit |-> TRUE, code |-> r.code, obj |-> r.obj, calls |-> r.calls,
              probed |-> IF ident.isInt THEN {byIndex} ELSE {}]
        ELSE IF name # ""
        THEN [exit |-> FALSE, positions |-> byId, err |-> byId.err,
              probed |-> (IF ident.isInt THEN {byIndex} ELSE {})
                             \cup ProbedUpTo(a, others),
              calls |-> r.calls \o <<PositionCall(name, StrIdent(r.id), r.id, byId)>>]
        ELSE [exit |-> TRUE, code |-> 1, calls |-> r.calls,
              obj |-> ErrObj("No LED position API available in cuesdk", NoArg),
              probed |-> (IF ident.isInt THEN {byIndex} ELSE {})
                             \cup ProbedUpTo(a, others)]

---------------------------------------------------------------------------
(* set_colors_buffer *)

set_colors_buffer(a, ident, cols, devlist, infoOk, ans) ==
    LET byIndex == "set_led_colors_buffer_by_device_index"
        others == <<"set_led_colors_buffer_by_device_id", "set_led_colors_buffer">>
        idev == DevAtIndex(devlist, ident.n)
        ist == IF ans.byIndex = "TypeError" THEN "TypeError"
               ELSE SdkWriteByIndex(idev, ans.byIndex)
        tried == IF ident.isInt /\ a[byIndex]
                 THEN <<Call(byIndex, ident, idev, cols, ist)>> ELSE <<>>
        seen == IF ident.isInt THEN {byIndex} ELSE {}
        r == to_device_id(ident, get_devices_with_indexes(devlist, ans.enum, infoOk))
        name == FirstCallable(a, others)
    IN  IF ident.isInt /\ a[byIndex] /\ ist # "TypeError"
        THEN [exit |-> FALSE, err |-> ist, probed |-> seen, calls |-> tried]
        ELSE IF r.exit
        THEN [exit |-> TRUE, code |-> r.code, obj |-> r.obj, probed |-> seen,
              calls |-> tried \o r.calls]
        ELSE IF name = ""
        THEN [exit |-> FALSE, err |-> "CE_Unknown",
              probed |-> seen \cup ProbedUpTo(a, others), calls |-> tried \o r.calls]
        ELSE IF ans.byId # "TypeError"
        THEN [exit |-> FALSE, err |-> ans.byId,
              probed |-> seen \cup ProbedUpTo(a, others),
              calls |-> tried \o r.calls
                            \o <<Call(name, StrIdent(r.id), r.id, cols, ans.byId)>>]
        ELSE [exit |-> FALSE, err |-> ans.global,
              probed |-> seen \cup ProbedUpTo(a, others),
              calls |-> tried \o r.calls
                            \o <<Call(name, StrIdent(r.id), r.id, cols, "TypeError"),
                                 Call(name, NoIdent, NoDev, cols, ans.global)>>]

---------------------------------------------------------------------------
(* flush_colors *)

flush_colors(a, st) ==
    IF a[FlushOp]
    THEN [err |-> st, probed |-> {FlushOp},
          calls |-> <<Call(FlushOp, NoIdent, NoDev, <<>>, "")>>]
    ELSE [err |-> CE_Success, probed |-> {FlushOp}, calls |-> <<>>]

---------------------------------------------------------------------------
(* Inputs *)

\* Identifier arguments: the empty string, indices in and out of range, one
\* written with a leading zero, device ids, and a string that is neither.
Idents == {<<>>, <<"0">>, <<"0", "1">>, <<"-", "1">>, DevA, DevB, <<"z">>}

\* The JSON texts given as payload; json.loads yields `value` or raises.
JsonText(v) == [valid |-> TRUE, value |-> v]

NotJson == [valid |-> FALSE, value |-> <<>>]

LedEntry(lid, r, g, b) == [led_id |-> lid, r |-> r, g |-> g, b |-> b]

PayloadTexts ==
    {JsonText(<<LedEntry(3, 255, 0, 0), LedEntry(1, 0, 0, 7)>>),
     JsonText(<<LedEntry(3, 255, 0, 0), [led_id |-> 1, r |-> 0, g |-> 0]>>),
     NotJson}

StdinTexts == {JsonText(<<LedEntry(3, 255, 0, 0)>>)}

Rgb == <<<<"2", "5", "5">>, <<"0">>, <<"7">>>>

Argvs ==
    {<<>>, <<"list_devices">>, <<"list_leds">>, <<"blink">>,
     <<"set_color", Rgb[1], Rgb[2], Rgb[3]>>,
     <<"set_color", Rgb[1], <<"x">>, Rgb[3]>>}
        \cup {<<"list_leds", i>> : i \in Idents}
        \cup {<<"set_color", Rgb[1], Rgb[2], Rgb[3], i>> : i \in Idents}
        \cup {<<"set_leds", i>> : i \in {<<"0">>, DevA}}
        \cup {<<"set_leds", i, p>> : i \in Idents, p \in PayloadTexts}

---------------------------------------------------------------------------
(* json_out, and the try/except of main *)

\* json_out outside main's try block: print the object, then sys.exit(code).
JsonOut(obj, code) ==
    /\ out' = Append(out, obj)
    /\ exitCode' = code
    /\ pc' = "done"

\* A bare `except:` instead: it would catch SystemExit too.
MainCatchesAll(exc) == TRUE

\* `except Exception` of main: sys.exit raises SystemExit, which is a
\* BaseException and no Exception.
MainCatches(exc) == exc # "SystemExit"

\* json_out inside main's try block.
TryJsonOut(obj, code) ==
    IF MainCatches("SystemExit")
    THEN /\ out' = out \o <<obj, ErrObj("SystemExit", IntStr(code))>>
         /\ exitCode' = 1
         /\ pc' = "done"
    ELSE JsonOut(obj, code)

\* An exception raised inside main's try block: json_out({'error': str(e)}, 1)
\* if caught, a traceback and exit code 1 if not.
Raise(exc) ==
    IF MainCatches(exc)
    THEN JsonOut(ErrObj(exc, NoArg), 1)
    ELSE /\ out' = out
         /\ exitCode' = 1
         /\ pc' = "done"

\* What the main flow has learnt of the build's entry points grows by the
\* names it asked getattr for.
Learn(a, probed) ==
    api' = [n \in (DOMAIN api) \cup probed |->
               IF n \in DOMAIN api THEN api[n] ELSE a[n]]

\* The builds of cuesdk that agree with what getattr has answered so far.
Builds(names) ==
    {a \in [names -> BOOLEAN] : \A n \in names \cap DOMAIN api : a[n] = api[n]}

\* No earlier invocation.
NoRun == [ran |-> FALSE, argv |-> <<>>, out |-> <<>>, calls |-> <<>>, exitCode |-> -1]

---------------------------------------------------------------------------
(* Initial state *)

Init ==
    /\ argv \in Argvs
    /\ stdin \in StdinTexts
    /\ api = [n \in {} |-> TRUE]
    /\ devs \in DevLists
    /\ noInfo \in SUBSET Devices
    /\ plugs = 0
    /\ pc = "start"
    /\ session = FALSE
    /\ ready = FALSE
    /\ elapsed = FALSE
    /\ targets = <<>>
    /\ ti = 1
    /\ colors = <<>>
    /\ calls = <<>>
    /\ out = <<>>
    /\ exitCode = -1
    /\ prev = NoRun

---------------------------------------------------------------------------
(* main *)

\* json.loads
JsonLoads(text) == text.value

\* The command of a well-formed argument vector, "" for any other.
Command ==
    IF Len(argv) = 0 THEN ""
    ELSE IF argv[1] = "list_devices" THEN "list_devices"
    ELSE IF argv[1] = "list_leds" /\ Len(argv) >= 2 THEN "list_leds"
    ELSE IF argv[1] = "set_color" /\ Len(argv) \in {4, 5} THEN "set_color"
    ELSE IF argv[1] = "set_leds" /\ Len(argv) >= 3 THEN "set_leds"
    ELSE ""

\* The text line 225 hands to json.loads.
PayloadText == IF Len(argv) >= 3 THEN argv[3] ELSE stdin

\* main, up to the call of the command's function.
Main ==
    /\ pc = "start"
    /\ IF Len(argv) = 0
       THEN JsonOut(ErrObj("Usage", NoArg), 1)
       ELSE IF Command = ""
       THEN TryJsonOut(ErrObj("Bad arguments", NoArg), 1)
       ELSE IF Command = "set_color" /\ \E k \in 2..4 : ~is_int_str(argv[k])
       THEN Raise("ValueError")
       ELSE IF Command = "set_leds" /\ ~PayloadText.valid
       THEN Raise("JSONDecodeError")
       ELSE /\ pc' = "connect"
            /\ UNCHANGED <<out, exitCode, prev>>
    /\ UNCHANGED <<argv, stdin, api, devs, noInfo, plugs, session, ready, elapsed,
                   targets, ti, colors, calls, prev>>

\* device_identifier of the command being run.
DeviceIdentifier ==
    IF Command = "set_color" THEN (IF Len(argv) = 5 THEN argv[5] ELSE <<>>)
    ELSE argv[2]

\* `if device_identifier:` of set_color_cmd: None and '' are both false.
HasIdentifier == Command = "set_color" /\ Len(argv) = 5 /\ Len(argv[5]) > 0

---------------------------------------------------------------------------
(* connect_sdk *)

SessionStates == {"CSS_Connecting", "CSS_Connected"}

\* sdk.connect(on_state), and json_out if it is refused.
Connect ==
    /\ pc = "connect"
    /\ \E err \in Statuses :
        /\ calls' = Append(calls, Call("connect", NoIdent, NoDev, <<>>, err))
        /\ IF err # CE_Success
           THEN /\ TryJsonOut(ErrCodeObj("Failed to connect to iCUE", err), 1)
                /\ UNCHANGED session
           ELSE /\ pc' = "wait"
                /\ session' = TRUE
                /\ UNCHANGED <<out, exitCode, prev>>
    /\ UNCHANGED <<argv, stdin, api, devs, noInfo, plugs, ready, elapsed,
                   targets, ti, colors, prev>>

\* on_state, run by the SDK's callback thread.  The event is read by
\* ready.wait alone, so only the calls up to its return are modelled.
OnState ==
    /\ session
    /\ pc = "wait"
    /\ \E st \in SessionStates :
        ready' = (ready \/ st = "CSS_Connected")
    /\ UNCHANGED <<argv, stdin, api, devs, noInfo, plugs, pc, session, elapsed,
                   targets, ti, colors, calls, out, exitCode, prev>>

\* timeout_sec elapses while the main flow is in ready.wait.
Timeout ==
    /\ pc = "wait"
    /\ ~elapsed
    /\ elapsed' = TRUE
    /\ UNCHANGED <<argv, stdin, api, devs, noInfo, plugs, pc, session, ready,
                   targets, ti, colors, calls, out, exitCode, prev>>

\* connect_sdk without the wait: it returns as soon as connect has.
WaitReturnAtOnce ==
    /\ pc = "wait"
    /\ pc' = Command
    /\ ready' = FALSE
    /\ elapsed' = FALSE
    /\ UNCHANGED <<argv, stdin, api, devs, noInfo, plugs, session,
                   targets, ti, colors, calls, out, exitCode, prev>>

\* ready.wait(timeout_sec) returns, whether the event is set or not, and
\* connect_sdk returns the sdk to the command's function; the event and the
\* timer of connect_sdk are not looked at again.
WaitReturn ==
    /\ pc = "wait"
    /\ ready \/ elapsed
    /\ pc' = Command
    /\ ready' = FALSE
    /\ elapsed' = FALSE
    /\ UNCHANGED <<argv, stdin, api, devs, noInfo, plugs, session,
                   targets, ti, colors, calls, out, exitCode, prev>>

\* A device is plugged or unplugged.  The device list is read by the steps of
\* set_color_cmd's loop; a change at any other moment is the same as another
\* initial list or as a change just before the next of these steps.
HotPlug ==
    /\ pc \in {"sc_next", "sc_write"}
    /\ ti <= Len(targets)
    /\ plugs < MaxPlug
    /\ plugs' = plugs + 1
    /\ \E l \in DevLists :
        /\ \/ \E i \in 1..Len(devs) :
                l = SubSeq(devs, 1, i - 1) \o SubSeq(devs, i + 1, Len(devs))
           \/ \E d \in Devices : l = Append(devs, d)
        /\ devs' = l
    /\ UNCHANGED <<argv, stdin, api, noInfo, pc, session, ready, elapsed,
                   targets, ti, colors, calls, out, exitCode, prev>>

\* The 0-based indices of the device list whose get_device_info succeeds.
InfoOk == {idx \in 0..(Len(devs) - 1) : devs[idx + 1] \notin noInfo}

---------------------------------------------------------------------------
(* list_devices_cmd *)

ListDevices ==
    /\ pc = "list_devices"
    /\ \E err \in Statuses :
        LET en == get_devices_with_indexes(devs, err, InfoOk)
        IN  /\ calls' = calls \o en.calls
            /\ IF en.exit
               THEN TryJsonOut(en.obj, en.code)
               ELSE TryJsonOut([ok |-> TRUE, devices |-> en.result], 0)
    /\ UNCHANGED <<argv, stdin, api, devs, noInfo, plugs, session, ready, elapsed,
                   targets, ti, colors, prev>>

---------------------------------------------------------------------------
(* list_leds_cmd *)

\* The entry of `leds` for one LED position.
LedJson(lp) ==
    [led_id |-> lp.led_id, top |-> lp.top, left |-> lp.left,
     height |-> lp.height, width |-> lp.width]

ListLeds ==
    /\ pc = "list_leds"
    /\ \E a \in Builds(PositionOps), ans \in PositionStepAnswers :
        LET p == get_led_positions(a, ParseIdent(DeviceIdentifier), devs, InfoOk, ans)
        IN  /\ calls' = calls \o p.calls
            /\ Learn(a, p.probed)
            /\ IF p.exit
               THEN TryJsonOut(p.obj, p.code)
               ELSE IF p.err # CE_Success \/ p.positions.isNone
               THEN TryJsonOut([error |-> <<"Could not get LED positions", NoArg>>,
                                code |-> p.err, device |-> DeviceIdentifier], 1)
               ELSE TryJsonOut([ok |-> TRUE, device |-> DeviceIdentifier,
                                leds |-> [i \in 1..Len(p.positions.leds) |->
                                             LedJson(p.positions.leds[i])]], 0)
    /\ UNCHANGED <<argv, stdin, devs, noInfo, plugs, session, ready, elapsed,
                   targets, ti, colors, prev>>

---------------------------------------------------------------------------
(* set_color_cmd *)

\* The colour channels passed in the wrong order.
LedColorSwapped(lid, r, g, b) == [led_id |-> lid, r |-> b, g |-> g, b |-> r]

\* CorsairLedColor(int(lid), int(r), int(g), int(b))
LedColor(lid, r, g, b) == [led_id |-> lid, r |-> r, g |-> g, b |-> b]

\* Lines 170-175: the list of targets.
SetColorTargets ==
    /\ pc = "set_color"
    /\ IF HasIdentifier
       THEN /\ targets' = <<ParseIdent(DeviceIdentifier)>>
            /\ pc' = "sc_next"
            /\ UNCHANGED <<calls, out, exitCode, prev>>
       ELSE \E err \in Statuses :
            LET en == get_devices_with_indexes(devs, err, InfoOk)
            IN  /\ calls' = calls \o en.calls
                /\ IF en.exit
                   THEN /\ TryJsonOut(en.obj, en.code)
                        /\ UNCHANGED targets
                   ELSE /\ targets' = [i \in 1..Len(en.result) |->
                                          IntIdent(en.result[i].index)]
                        /\ pc' = "sc_next"
                        /\ UNCHANGED <<out, exitCode, prev>>
    /\ ti' = 1
    /\ UNCHANGED <<argv, stdin, api, devs, noInfo, plugs, session, ready, elapsed,
                   colors, prev>>

\* Lines 178-187 for the target at ti: the position query and the colour list.
SetColorPositions ==
    /\ pc = "sc_next"
    /\ ti <= Len(targets)
    /\ \E a \in Builds(PositionOps), ans \in PositionStepAnswers :
        LET p == get_led_positions(a, targets[ti], devs, InfoOk, ans)
            cols == [i \in 1..Len(p.positions.leds) |->
                        LedColor(p.positions.leds[i].led_id,
                                 IntOf(argv[2]), IntOf(argv[3]), IntOf(argv[4]))]
        IN  /\ calls' = calls \o p.calls
            /\ Learn(a, p.probed)
            /\ IF p.exit
               THEN /\ TryJsonOut(p.obj, p.code)
                    /\ UNCHANGED <<ti, colors, prev>>
               ELSE IF p.err # CE_Success \/ p.positions.isNone \/ cols = <<>>
               THEN /\ ti' = ti + 1
                    /\ UNCHANGED <<pc, colors, out, exitCode, prev>>
               ELSE /\ colors' = cols
                    /\ pc' = "sc_write"
                    /\ UNCHANGED <<ti, out, exitCode, prev>>
    /\ UNCHANGED <<argv, stdin, devs, noInfo, plugs, session, ready, elapsed, targets, prev>>

\* Lines 188-190 for the target at ti: the buffered write.
SetColorWrite ==
    /\ pc = "sc_write"
    /\ \E a \in Builds(WriteOps), ans \in WriteStepAnswers :
        LET w == set_colors_buffer(a, targets[ti], colors, devs, InfoOk, ans)
        IN  /\ calls' = calls \o w.calls
            /\ Learn(a, w.probed)
            /\ IF w.exit
               THEN /\ TryJsonOut(w.obj, w.code)
                    /\ UNCHANGED ti
               ELSE IF w.err # CE_Success
               THEN /\ ti' = ti + 1
                    /\ pc' = "sc_next"
                    /\ UNCHANGED <<out, exitCode, prev>>
               ELSE /\ pc' = "sc_flush"
                    /\ UNCHANGED <<ti, out, exitCode, prev>>
    /\ UNCHANGED <<argv, stdin, devs, noInfo, plugs, session, ready, elapsed,
                   targets, colors, prev>>

\* Line 191 for the target at ti: the flush, whose status is dropped.
SetColorFlush ==
    /\ pc = "sc_flush"
    /\ \E a \in Builds({FlushOp}), st \in Statuses :
        LET f == flush_colors(a, st)
        IN  /\ calls' = calls \o f.calls
            /\ Learn(a, f.probed)
    /\ ti' = ti + 1
    /\ pc' = "sc_next"
    /\ UNCHANGED <<argv, stdin, devs, noInfo, plugs, session, ready, elapsed,
                   targets, colors, out, exitCode, prev>>

\* Line 192, after the last target.
SetColorDone ==
    /\ pc = "sc_next"
    /\ ti > Len(targets)
    /\ TryJsonOut([ok |-> TRUE], 0)
    /\ UNCHANGED <<argv, stdin, api, devs, noInfo, plugs, session, ready, elapsed,
                   targets, ti, colors, calls, prev>>

---------------------------------------------------------------------------
(* set_leds_cmd *)

WellFormed(item) == {"led_id", "r", "g", "b"} \subseteq DOMAIN item

\* Lines 197-203: the colour list and the buffered write.
SetLedsWrite ==
    /\ pc = "set_leds"
    /\ LET payload == JsonLoads(PayloadText)
           cols == [i \in 1..Len(payload) |->
                       LedColor(payload[i].led_id, payload[i].r,
                                payload[i].g, payload[i].b)]
       IN  IF \E i \in 1..Len(payload) : ~WellFormed(payload[i])
           THEN /\ Raise("KeyError")
                /\ UNCHANGED <<api, colors, calls, prev>>
           ELSE \E a \in Builds(WriteOps), ans \in WriteStepAnswers :
                LET w == set_colors_buffer(a, ParseIdent(DeviceIdentifier),
                                           cols, devs, InfoOk, ans)
                IN  /\ calls' = calls \o w.calls
                    /\ Learn(a, w.probed)
                    /\ colors' = cols
                    /\ IF w.exit
                       THEN TryJsonOut(w.obj, w.code)
                       ELSE IF w.err # CE_Success
                       THEN TryJsonOut(ErrCodeObj("Failed to set LED colors", w.err), 1)
                       ELSE /\ pc' = "sl_flush"
                            /\ UNCHANGED <<out, exitCode, prev>>
    /\ UNCHANGED <<argv, stdin, devs, noInfo, plugs, session, ready, elapsed,
                   targets, ti, prev>>

\* Lines 204-205: the flush, whose status is dropped, and the result.
SetLedsFlush ==
    /\ pc = "sl_flush"
    /\ \E a \in Builds({FlushOp}), st \in Statuses :
        LET f == flush_colors(a, st)
        IN  /\ calls' = calls \o f.calls
            /\ Learn(a, f.probed)
    /\ TryJsonOut([ok |-> TRUE], 0)
    /\ UNCHANGED <<argv, stdin, devs, noInfo, plugs, session, ready, elapsed,
                   targets, ti, colors, prev>>

---------------------------------------------------------------------------
(* The invocation *)

Next ==
    \/ Main
    \/ Connect
    \/ OnState
    \/ Timeout
    \/ WaitReturn
    \/ HotPlug
    \/ ListDevices
    \/ ListLeds
    \/ SetColorTargets
    \/ SetColorPositions
    \/ SetColorWrite
    \/ SetColorFlush
    \/ SetColorDone
    \/ SetLedsWrite
    \/ SetLedsFlush

Spec == Init /\ [][Next]_vars

\* The steps of the main flow, which runs on until the process exits, and the
\* timer of ready.wait, which runs out.
MainFlow ==
    \/ Main
    \/ Connect
    \/ Timeout
    \/ WaitReturn
    \/ ListDevices
    \/ ListLeds
    \/ SetColorTargets
    \/ SetColorPositions
    \/ SetColorWrite
    \/ SetColorFlush
    \/ SetColorDone
    \/ SetLedsWrite
    \/ SetLedsFlush

FairSpec == Spec /\ WF_vars(MainFlow)

---------------------------------------------------------------------------
(* Two invocations in a row against the same SDK and the same devices:       *)
(* list_leds <index>, then list_leds <device id>.                            *)

IndexArgvs == {<<"list_leds", i>> : i \in {<<"0">>, <<"0", "1">>}}

DeviceIdArgvs == {<<"list_leds", d>> : d \in Devices}

InitPair == Init /\ argv \in IndexArgvs

\* The process has exited and the parent starts the adapter again.
Reinvoke ==
    /\ pc = "done"
    /\ ~prev.ran
    /\ prev' = [ran |-> TRUE, argv |-> argv, out |-> out, calls |-> calls,
                exitCode |-> exitCode]
    /\ argv' \in DeviceIdArgvs
    /\ pc' = "start"
    /\ session' = FALSE
    /\ calls' = <<>>
    /\ out' = <<>>
    /\ exitCode' = -1
    /\ UNCHANGED <<stdin, api, devs, noInfo, plugs, ready, elapsed, targets, ti, colors>>

NextPair ==
    \/ Main
    \/ Connect
    \/ OnState
    \/ Timeout
    \/ WaitReturn
    \/ ListLeds
    \/ Reinvoke

SpecPair == InitPair /\ [][NextPair]_vars

---------------------------------------------------------------------------
(* Properties *)

Done == pc = "done"

CallIdx == 1..Len(calls)

PositionIdx == {k \in CallIdx : calls[k].op \in PositionOps}

WriteIdx == {k \in CallIdx : calls[k].op \in WriteOps}

FlushIdx == {k \in CallIdx : calls[k].op = FlushOp}

\* Exactly one object is printed, at exit, and the exit code tells which kind.
OneObjectAtExit ==
    /\ ~Done => out = <<>> /\ exitCode = -1
    /\ Done =>
        /\ Len(out) = 1
        /\ exitCode \in {0, 1}
        /\ exitCode = 0 <=> IsSuccessObj(out[1])
        /\ exitCode = 1 <=> IsErrorObj(out[1])

\* C1: whatever the argument vector and whatever the SDK answers, the
\* invocation terminates, prints exactly one JSON object, and exits with 0
\* exactly when the object has ok: true and with 1 exactly when it has an
\* error key; nothing is printed before the exit and nothing after.
C1_OneObjectAndExitCode == []OneObjectAtExit /\ <>Done

\* A success object printed although an SDK call of the invocation failed.
C1_Witness ==
    /\ Done
    /\ exitCode = 0
    /\ out = <<[ok |-> TRUE]>>
    /\ \E k \in CallIdx : calls[k].err = "CE_NotConnected"

\* ready.wait lets the main flow go on into the command, with nothing printed.
WaitResumes == WaitReturn /\ pc' = Command /\ out' = <<>> /\ exitCode' = -1

\* C8: connect is the first SDK call and the only one until it has returned
\* Success and the wait is over; the wait ends exactly when the connected
\* notification has been delivered or the timeout has elapsed, and then the
\* main flow goes on without an error; a refused connect ends the invocation
\* with {error, code}, exit code 1 and no further SDK call.
C8_ConnectThenWait ==
    /\ \A k \in CallIdx : calls[k].op = "connect" <=> k = 1
    /\ pc \in {"start", "connect"} => calls = <<>>
    /\ pc = "wait" => Len(calls) = 1 /\ calls[1].err = CE_Success /\ out = <<>>
    /\ Len(calls) > 1 => calls[1].err = CE_Success
    /\ pc = "wait" => (ENABLED WaitReturn <=> (ready \/ elapsed))
    /\ pc = "wait" /\ (ready \/ elapsed) => ENABLED WaitResumes
    /\ calls # <<>> /\ calls[1].err # CE_Success =>
        /\ Done
        /\ Len(calls) = 1
        /\ out = <<ErrCodeObj("Failed to connect to iCUE", calls[1].err)>>
        /\ exitCode = 1

\* An SDK call other than connect has been issued, after the wait.
C8_Witness ==
    /\ Len(calls) >= 2
    /\ calls[1].op = "connect"
    /\ calls[2].op \in PositionOps

\* The colour list set_leds is to submit: one assignment per payload entry.
PayloadColors ==
    [i \in 1..Len(JsonLoads(argv[3])) |->
        [led_id |-> JsonLoads(argv[3])[i].led_id, r |-> JsonLoads(argv[3])[i].r,
         g |-> JsonLoads(argv[3])[i].g, b |-> JsonLoads(argv[3])[i].b]]

\* C9: in set_leds every buffered write carries one colour assignment per
\* payload entry, in payload order, with the entry's led_id, r, g, b; the
\* flush comes right after a write that returned Success and before ok is
\* printed; a write that returns another status is followed by no flush and
\* ends the invocation with {error: 'Failed to set LED colors', code}, exit 1.
C9_WriteThenFlush ==
    Command = "set_leds" =>
        /\ \A k \in WriteIdx : calls[k].data = PayloadColors
        /\ \A k \in FlushIdx :
            k > 1 /\ calls[k - 1].op \in WriteOps /\ calls[k - 1].err = CE_Success
        /\ pc = "sl_flush" =>
            /\ out = <<>>
            /\ FlushIdx = {}
            /\ calls[Len(calls)].op \in WriteOps
            /\ calls[Len(calls)].err = CE_Success
        /\ Done /\ out = <<[ok |-> TRUE]>> /\ api[FlushOp] =>
            calls[Len(calls)].op = FlushOp
        /\ Done /\ WriteIdx # {} /\ calls[Len(calls)].op \in WriteOps
                 /\ calls[Len(calls)].err # CE_Success =>
            /\ FlushIdx = {}
            /\ exitCode = 1
            /\ out = <<ErrCodeObj("Failed to set LED colors", calls[Len(calls)].err)>>

\* set_leds has written both entries of its payload, flushed and printed ok.
C9_Witness ==
    /\ Done
    /\ Command = "set_leds"
    /\ out = <<[ok |-> TRUE]>>
    /\ FlushIdx # {}
    /\ \E k \in WriteIdx : Len(calls[k].data) = 2 /\ calls[k].err = CE_Success

---------------------------------------------------------------------------
(* Properties of the commands that target devices *)

\* sdk.connect returned Success.
Connected(cs) == cs # <<>> /\ cs[1].err = CE_Success

\* Every enumeration among the calls cs returned Success.
EnumerationsOk(cs) ==
    \A k \in 1..Len(cs) : cs[k].op = "get_devices" => cs[k].err = CE_Success

\* set_color without a fifth argument whose connection and first enumeration
\* have succeeded, on an SDK that exposes an LED position entry point.
FanOut ==
    /\ Len(argv) = 4
    /\ \E n \in PositionOps \cap DOMAIN api : api[n]
    /\ argv[1] = "set_color"
    /\ Len(calls) >= 2
    /\ calls[1].err = CE_Success
    /\ calls[2].op = "get_devices"
    /\ calls[2].err = CE_Success

\* C2 (as claimed): when the SDK exposes an LED position entry point, the
\* fan-out of set_color always ends with {ok: true} and exit code 0, whatever
\* happens for an individual target.
C2_FanOutAlwaysOk ==
    Done /\ FanOut => out = <<[ok |-> TRUE]>> /\ exitCode = 0

\* The devices of the enumeration that set_color's fan-out starts with.
FanOutDevices ==
    {calls[k].dev : k \in {j \in CallIdx :
        j > 2 /\ \A i \in 3..j : calls[i].op = "get_device_info"}}

\* The colour list for the positions a query returned: one assignment per
\* LED, all with the commanded r, g, b.
UniformColors(leds) ==
    [i \in 1..Len(leds) |->
        [led_id |-> leds[i].led_id, r |-> IntOf(argv[2]), g |-> IntOf(argv[3]),
         b |-> IntOf(argv[4])]]

\* C3 (as claimed): the fan-out of set_color queries the LED positions of
\* every device the SDK enumerated, and submits for every query that returned
\* at least one LED a write with one (led_id, r, g, b) per LED.
C3_EveryDeviceTargeted ==
    Done /\ FanOut =>
        /\ \A d \in FanOutDevices : \E k \in PositionIdx : calls[k].dev = d
        /\ \A k \in PositionIdx :
            calls[k].err = CE_Success /\ calls[k].data # <<>> =>
                \E w \in WriteIdx : w > k /\ calls[w].data = UniformColors(calls[k].data)

\* The position query whose result the write at w was built from.
QueryBefore(w) == CHOOSE q \in PositionIdx : q < w /\ \A k \in PositionIdx : k < w => k <= q

\* C10 (as claimed): in set_color every buffered write that is addressed to a
\* device goes to the device whose LED positions were queried for it.
C10_WriteGoesToQueriedDevice ==
    argv # <<>> /\ argv[1] = "set_color" =>
        \A w \in WriteIdx :
            calls[w].dev # NoDev => calls[w].dev = calls[QueryBefore(w)].dev

\* The payload of set_leds is a list of {led_id, r, g, b} objects.
PayloadOk ==
    Command = "set_leds" =>
        \A i \in 1..Len(JsonLoads(argv[3])) : WellFormed(JsonLoads(argv[3])[i])

\* A command with a device identifier argument has run to its end, with the
\* connection made and every enumeration answered.
TargetedRun ==
    /\ Done
    /\ Command \in {"list_leds", "set_color", "set_leds"}
    /\ Command = "set_color" => Len(argv) = 5
    /\ PayloadOk
    /\ Connected(calls)
    /\ EnumerationsOk(calls)

EnumeratedIds == {devs[i] : i \in 1..Len(devs)}

\* C6 (as claimed): while the device list does not change, an identifier that
\* is no integer literal and no device id of the enumeration ends the invocation with 'Unknown device identifier:
\* <identifier>' and exit code 1, with no position query, write or flush.
C6_UnknownIdentifierRejected ==
    TargetedRun /\ plugs = 0 /\ ~is_int_str(DeviceIdentifier)
                /\ DeviceIdentifier \notin EnumeratedIds =>
        /\ out = <<ErrObj("Unknown device identifier: ", DeviceIdentifier)>>
        /\ exitCode = 1
        /\ PositionIdx \cup WriteIdx \cup FlushIdx = {}

\* The colour list of the array on standard input.
StdinColors ==
    [i \in 1..Len(JsonLoads(stdin)) |->
        [led_id |-> JsonLoads(stdin)[i].led_id, r |-> JsonLoads(stdin)[i].r,
         g |-> JsonLoads(stdin)[i].g, b |-> JsonLoads(stdin)[i].b]]

\* C7 (as claimed): set_leds with an identifier and no array argument takes
\* the array from standard input and goes on as if it had been the argument.
C7_PayloadFromStdin ==
    Done /\ Len(argv) = 2 /\ argv[1] = "set_leds" =>
        /\ calls # <<>>
        /\ out # <<ErrObj("Bad arguments", NoArg)>>
        /\ out = <<[ok |-> TRUE]>> => \E w \in WriteIdx : calls[w].data = StdinColors

\* The identifier is an integer literal that is no index of the device list.
OutOfRange ==
    /\ is_int_str(DeviceIdentifier)
    /\ DevAtIndex(devs, IntOf(DeviceIdentifier)) = NoDev

\* C5 (as claimed): an identifier that is an integer literal but no index of
\* the enumeration ends the invocation with 'Index out of range: <identifier>'
\* and exit code 1, and the index is passed to no position or write call,
\* whichever entry points the SDK exposes.
C5_OutOfRangeRejected ==
    TargetedRun /\ OutOfRange /\ plugs = 0 =>
        /\ out = <<ErrObj("Index out of range: ", DeviceIdentifier)>>
        /\ exitCode = 1
        /\ \A k \in PositionIdx \cup WriteIdx :
            calls[k].arg # IntIdent(IntOf(DeviceIdentifier))

\* The number of devices in the first enumeration of the invocation.
FirstEnumerated ==
    Cardinality({j \in CallIdx :
        j > 2 /\ \A i \in 3..j : calls[i].op = "get_device_info"})

\* The identifier is an integer literal that is no index of the enumeration
\* by which the command resolves it.
OutOfRangeWhenResolved ==
    /\ is_int_str(DeviceIdentifier)
    /\ Len(calls) >= 2
    /\ calls[2].op = "get_devices"
    /\ IntOf(DeviceIdentifier) \notin 0..(FirstEnumerated - 1)

\* The index-addressed entry point the command would call first.
FirstIndexOp ==
    IF Command = "set_leds" THEN "set_led_colors_buffer_by_device_index"
    ELSE "get_led_positions_by_device_index"

\* C5 (amended): when the SDK does not expose the index-addressed entry point
\* the command would call first, an identifier that is an integer literal but
\* no index of the enumeration ends the invocation with 'Index out of range: '
\* followed by the integer in decimal, and exit code 1, and no position query,
\* write or flush is issued.
C5_OutOfRangeRejectedWithoutIndexApi ==
    TargetedRun /\ OutOfRangeWhenResolved
                /\ FirstIndexOp \in DOMAIN api /\ ~api[FirstIndexOp] =>
        /\ out = <<ErrObj("Index out of range: ", IntStr(IntOf(DeviceIdentifier)))>>
        /\ exitCode = 1
        /\ PositionIdx \cup WriteIdx \cup FlushIdx = {}

\* set_leds 01 was refused with 'Index out of range: 1'.
C5_Witness ==
    /\ Done
    /\ Command = "set_leds"
    /\ DeviceIdentifier = <<"0", "1">>
    /\ out = <<ErrObj("Index out of range: ", <<"1">>)>>

---------------------------------------------------------------------------
(* list_leds <index> against list_leds <device id> *)

PositionCallsOf(cs) == {k \in 1..Len(cs) : cs[k].op \in PositionOps}

\* list_leds i and then list_leds d have run on an SDK that exposes an LED
\* position entry point, where list_devices would list d at index i, and the
\* SDK has answered both invocations alike: connected, enumerated, and the
\* same kind of answer to the position queries.
PairRun ==
    /\ Done
    /\ prev.ran
    /\ DevAtIndex(devs, IntOf(prev.argv[2])) = argv[2]
    /\ argv[2] \notin noInfo
    /\ \E n \in PositionOps \cap DOMAIN api : api[n]
    /\ Connected(prev.calls) /\ Connected(calls)
    /\ EnumerationsOk(prev.calls) /\ EnumerationsOk(calls)
    /\ \A p \in PositionCallsOf(prev.calls), q \in PositionCallsOf(calls) :
        prev.calls[p].err = calls[q].err
            /\ (prev.calls[p].data = <<>> <=> calls[q].data = <<>>)

\* Both invocations queried the positions of the device d, once, and printed
\* the same leds list (or both an error).
SameDeviceSameLeds ==
    /\ \E p \in PositionCallsOf(prev.calls) :
        PositionCallsOf(prev.calls) = {p} /\ prev.calls[p].dev = argv[2]
    /\ \E q \in PositionCallsOf(calls) :
        PositionCallsOf(calls) = {q} /\ calls[q].dev = argv[2]
    /\ IsSuccessObj(prev.out[1]) <=> IsSuccessObj(out[1])
    /\ IsSuccessObj(out[1]) => out[1].leds = prev.out[1].leds

\* C4 (as claimed): list_leds i and list_leds d query the same device and
\* print identical leds lists, whichever position entry points the SDK exposes.
C4_IndexAndIdAgree == PairRun => SameDeviceSameLeds

\* C4 (amended): when the SDK exposes an id-addressed or the generic position
\* entry point (and device ids are no integer literals, and the SDK answers
\* both invocations alike), list_leds i and list_leds d query the same device
\* and print identical leds lists.
C4_IndexAndIdAgreeWithIdApi ==
    PairRun /\ (\E n \in {"get_led_positions_by_device_id", "get_led_positions"}
                         \cap DOMAIN api : api[n])
        => SameDeviceSameLeds

\* The first invocation went through the index-addressed entry point, the
\* second through an id-addressed one, and both printed the LEDs of DevA.
C4_Witness ==
    /\ PairRun
    /\ \E p \in PositionCallsOf(prev.calls) :
        prev.calls[p].op = "get_led_positions_by_device_index"
    /\ IsSuccessObj(out[1])
    /\ Len(out[1].leds) = 2
    /\ out[1].leds = prev.out[1].leds

====
